---- MODULE Spec2Model ----
(***************************************************************************)
(* Navigation state machine of the russ feed reader (src/src/app.rs).      *)
(*                                                                         *)
(* The App struct is one record, `app`; its field `conn` stands for the    *)
(* contents of the database behind the connection.  Every handler of       *)
(* app.rs is an operator from a call context to a call context; a call     *)
(* context carries the App, the result of the call so far ("Ok", "Err" or  *)
(* "panic"), the number of store calls left before one fails and whether   *)
(* the build checks integer overflow.  An action applies one handler to    *)
(* the App and records the handler and its result in `last`.               *)
(*                                                                         *)
(* The store (crate::rss) and the selectable list (crate::util) are not    *)
(* part of app.rs; they are modelled from their contracts.  Any store call *)
(* may fail.  Independent of the navigation and left out: title,           *)
(* database_path, enhanced_graphics, error_flash, input and mode (text     *)
(* editing); select_feeds, which no key reaches through on_key, is left    *)
(* out as well.                                                            *)
(***************************************************************************)
EXTENDS Integers, Sequences, FiniteSets, TLC

VARIABLES
    app,              \* the App struct (app.rs:25-44), conn = store contents
    last,             \* the last handler called, its result, the failed call
    failures          \* the store calls that have failed so far

vars == <<app, last, failures>>

----------------------------------------------------------------------------
(* Bounds *)

MaxFeeds == 2       \* feeds the store can hold
MaxEntries == 2     \* entries the store can hold, all feeds together
MaxScroll == 1      \* scroll offsets explored in the Entry view
MaxFailures == 1    \* store calls that fail in one run
MaxTicks == 1       \* timer ticks explored in one cycle of the progress

(* usize::MAX, the value 0usize - 1 wraps to when overflow is unchecked.   *)
(* It stands for 2^64 - 1; the model only needs it to exceed every length. *)
UsizeMax == 2147483647

----------------------------------------------------------------------------
(* Option<T>: None is the empty sequence, Some(x) the one-element one. *)

None == << >>
Some(x) == << x >>
IsSome(o) == o # None
Unwrap(o) == o[1]

----------------------------------------------------------------------------
(* The store behind `conn`: the feeds it persists, in the order in which   *)
(* it lists them, and for every feed its entries, in the order in which it *)
(* lists them.  Feed ids are 1, 2, ... in the order of subscription; the   *)
(* k-th entry of feed f has the id 10 * f + k.                             *)

FeedTitle(id) == << "feed", id >>

Feed(id) == [id |-> id, title |-> FeedTitle(id)]

(* An entry record.  Content and description are optional; the entries of  *)
(* the stores explored here carry a description and no content.            *)
Entry(id, feed_id, read) ==
    [id |-> id, feed_id |-> feed_id, read |-> read,
     content |-> None, description |-> Some("description")]

get_feed_titles(conn) ==
    [i \in 1..Len(conn.feeds) |-> << conn.feeds[i], FeedTitle(conn.feeds[i]) >>]

HasFeed(conn, id) == \E i \in 1..Len(conn.feeds) : conn.feeds[i] = id

IsShown(read_mode, e) == read_mode = "ShowAll" \/ ~e.read

get_entries(conn, read_mode, feed_id) ==
    SelectSeq(conn.entries[feed_id], LAMBDA e : IsShown(read_mode, e))

HasEntry(conn, id) ==
    \E f \in DOMAIN conn.entries :
        \E i \in 1..Len(conn.entries[f]) : conn.entries[f][i].id = id

get_entry(conn, id) ==
    LET f == CHOOSE g \in DOMAIN conn.entries :
                \E i \in 1..Len(conn.entries[g]) : conn.entries[g][i].id = id
        es == conn.entries[f]
    IN  es[CHOOSE i \in 1..Len(es) : es[i].id = id]

RECURSIVE CountEntries(_, _)
CountEntries(conn, f) ==
    IF f = 0 THEN 0 ELSE Len(conn.entries[f]) + CountEntries(conn, f - 1)

(* The number of entries the store holds *)
NumEntries(conn) == CountEntries(conn, Len(conn.entries))

(* Entry::toggle_read: flips the persisted read flag of one entry. *)
store_toggle_read(conn, id) ==
    [conn EXCEPT !.entries =
        [f \in DOMAIN conn.entries |->
            [i \in 1..Len(conn.entries[f]) |->
                IF conn.entries[f][i].id = id
                THEN [conn.entries[f][i] EXCEPT !.read = ~@]
                ELSE conn.entries[f][i]]]]

(* k new unread entries of feed_id, which has n entries, as a fetch found  *)
(* them.                                                                   *)
NewEntries(feed_id, n, k) ==
    [i \in 1..k |-> Entry(10 * feed_id + n + i, feed_id, FALSE)]

store_subscribe_to_feed(conn, k) ==
    LET id == Len(conn.feeds) + 1
    IN  [feeds |-> Append(conn.feeds, id),
         entries |-> Append(conn.entries, NewEntries(id, 0, k))]

store_refresh_feed(conn, feed_id, k) ==
    [conn EXCEPT !.entries[feed_id] =
        @ \o NewEntries(feed_id, Len(@), k)]

----------------------------------------------------------------------------
(* util::StatefulList<T>: the items and the optional selected index        *)
(* (0-based, as in the source).                                            *)

StatefulList(items) == [items |-> items, state |-> None]

select(list, sel) == [list EXCEPT !.state = sel]

IsEmpty(items) == Len(items) = 0

(* items.get(idx) / items[idx] with a 0-based index *)
InRange(items, idx) == idx < Len(items)
At(items, idx) == items[idx + 1]

next(list) ==
    IF IsEmpty(list.items) THEN list
    ELSE IF ~IsSome(list.state) THEN select(list, Some(0))
    ELSE IF Unwrap(list.state) + 1 >= Len(list.items) THEN select(list, Some(0))
    ELSE select(list, Some(Unwrap(list.state) + 1))

previous(list) ==
    IF IsEmpty(list.items) THEN list
    ELSE IF ~IsSome(list.state) THEN select(list, Some(0))
    ELSE IF Unwrap(list.state) = 0 THEN select(list, Some(Len(list.items) - 1))
    ELSE select(list, Some(Unwrap(list.state) - 1))

----------------------------------------------------------------------------
(* Call contexts.  `fail` = n > 0: the n-th store call from here fails;    *)
(* 0: none does.  `failed` names the store call that failed.               *)
(* `overflow_checks`: does the build check integer overflow (as a debug    *)
(* build does) or let it wrap (as a release build does)?  The actions      *)
(* choose it call by call; the runs of one build are those in which all    *)
(* calls choose alike.                                                     *)

Start(a, fail, checks) ==
    [app |-> a, res |-> "Ok", fail |-> fail, failed |-> "none",
     overflow_checks |-> checks]

IsFailing(c) == c.fail = 1

(* The store call went through: one call fewer until the failing one. *)
Called(c) == [c EXCEPT !.fail = IF @ > 0 THEN @ - 1 ELSE 0]

Fails(c, call) == [c EXCEPT !.res = "Err", !.fail = 0, !.failed = call]

Panics(c) == [c EXCEPT !.res = "panic", !.fail = 0]

(* The `?` operator: go on with F only after an Ok. *)
Then(c, F(_)) == IF c.res = "Ok" THEN F(c) ELSE c

----------------------------------------------------------------------------
(* Integer arithmetic of the source *)

U16Max == 65535

(* a - b on usize when a < b and overflow is not checked *)
wrapping_sub(a, b) == IF a >= b THEN a - b ELSE UsizeMax - (b - a) + 1

checked_sub(a, b) == IF a >= b THEN Some(a - b) ELSE None

checked_add(a, b) == IF a + b <= U16Max THEN Some(a + b) ELSE None

----------------------------------------------------------------------------
(* The view marker `Selected`: Feeds, Entries or Entry(snapshot) *)

Feeds == [tag |-> "Feeds", entry |-> None]
Entries == [tag |-> "Entries", entry |-> None]
EntryView(e) == [tag |-> "Entry", entry |-> Some(e)]

(* Display text of an entry: content, else description, else placeholder;  *)
(* one tui Text per line of the rendered text.                             *)
EntryText(entry) ==
    LET empty_string == "No content or description tag provided."
        entry_text == IF IsSome(entry.content) THEN entry.content
                      ELSE IF IsSome(entry.description) THEN entry.description
                      ELSE Some(empty_string)
    IN  << [raw |-> Unwrap(entry_text)] >>

----------------------------------------------------------------------------
(* The reload rules *)

update_feed_titles(c) ==
    IF IsFailing(c) THEN Fails(c, "get_feed_titles")
    ELSE [Called(c) EXCEPT
            !.app.feed_titles = StatefulList(get_feed_titles(c.app.conn))]

update_current_feed(c) ==
    LET a == c.app
        sel == a.feed_titles.state
    IN  IF IsEmpty(a.feed_titles.items)
        THEN [c EXCEPT !.app.current_feed = None]
        ELSE LET selected_idx == IF IsSome(sel) THEN Unwrap(sel) ELSE 0
                 c1 == IF IsSome(sel) THEN c
                       ELSE [c EXCEPT !.app.feed_titles = select(@, Some(0))]
             IN  IF ~InRange(a.feed_titles.items, selected_idx) THEN Panics(c1)
                 ELSE LET feed_id == At(a.feed_titles.items, selected_idx)[1]
                      IN  IF IsFailing(c1) \/ ~HasFeed(a.conn, feed_id)
                          THEN Fails(c1, "get_feed")
                          ELSE [Called(c1) EXCEPT
                                  !.app.current_feed = Some(Feed(feed_id))]

update_current_entries(c) ==
    LET a == c.app
        has_feed == IsSome(a.current_feed)
    IN  IF has_feed /\ IsFailing(c) THEN Fails(c, "get_entries")
        ELSE LET c1 == IF has_feed THEN Called(c) ELSE c
                 items == IF has_feed
                          THEN get_entries(a.conn, a.read_mode,
                                           Unwrap(a.current_feed).id)
                          ELSE << >>
                 c2 == [c1 EXCEPT !.app.entries = StatefulList(items)]
             IN  IF a.entry_selection_position < Len(items)
                 THEN [c2 EXCEPT !.app.entries =
                          select(@, Some(a.entry_selection_position))]
                 ELSE IF Len(items) < 1 /\ c.overflow_checks
                 THEN Panics(c2)
                 ELSE [c2 EXCEPT !.app.entries =
                          select(@, Some(wrapping_sub(Len(items), 1)))]

(* Mutant: the `?` after update_current_feed is missing *)
update_entries_despite_error(c) ==
    update_current_entries(update_current_feed(c))

update_current_feed_and_entries(c) ==
    Then(update_current_feed(c), update_current_entries)

(* get_selected_entry followed by `if let Some(entry) ... entry?;          *)
(* self.current_entry = Some(entry)`: the reload of the current entry.     *)
HasSelectedEntry(a) ==
    /\ IsSome(a.entries.state)
    /\ InRange(a.entries.items, Unwrap(a.entries.state))

get_selected_entry(c) ==
    LET a == c.app
    IN  IF ~HasSelectedEntry(a) THEN c
        ELSE LET entry_id == At(a.entries.items, Unwrap(a.entries.state)).id
             IN  IF IsFailing(c) \/ ~HasEntry(a.conn, entry_id)
                 THEN Fails(c, "get_entry")
                 ELSE [Called(c) EXCEPT
                         !.app.current_entry = Some(get_entry(a.conn, entry_id))]

----------------------------------------------------------------------------
(* The handlers of App *)

(* The struct literal of App::new, before the first reload *)
NewApp(conn) ==
    [conn |-> conn,
     progress |-> 0,
     should_quit |-> FALSE,
     feed_titles |-> StatefulList(<< >>),
     entries |-> StatefulList(<< >>),
     selected |-> Feeds,
     scroll |-> 0,
     current_entry |-> None,
     current_entry_text |-> << >>,
     current_feed |-> None,
     read_mode |-> "ShowUnread",
     entry_selection_position |-> 0]

new(c) == Then(update_feed_titles(c), update_current_feed_and_entries)

(* Mutant: feed_titles is not reloaded after the subscription *)
subscribe_without_reload(c, k) ==
    IF IsFailing(c) THEN Fails(c, "subscribe_to_feed")
    ELSE [Called(c) EXCEPT !.app.conn = store_subscribe_to_feed(@, k)]

(* k: the number of entries the fetch of the new feed finds *)
subscribe_to_feed(c, k) ==
    IF IsFailing(c) THEN Fails(c, "subscribe_to_feed")
    ELSE update_feed_titles(
            [Called(c) EXCEPT !.app.conn = store_subscribe_to_feed(@, k)])

(* Entries view of on_up / on_down, after the list has moved *)
remember_and_reload(c) ==
    IF ~IsSome(c.app.entries.state) THEN Panics(c)
    ELSE get_selected_entry(
            [c EXCEPT !.app.entry_selection_position = Unwrap(c.app.entries.state)])

(* Mutant: move-up in Entries view does not move the selection *)
on_up_stuck(c) ==
    LET a == c.app
    IN  CASE a.selected.tag = "Feeds" ->
                update_current_feed_and_entries(
                    [c EXCEPT !.app.feed_titles = previous(@)])
          [] a.selected.tag = "Entries" ->
                IF ~IsEmpty(a.entries.items)
                THEN remember_and_reload(c)
                ELSE c
          [] a.selected.tag = "Entry" ->
                IF IsSome(checked_sub(a.scroll, 1))
                THEN [c EXCEPT !.app.scroll = Unwrap(checked_sub(a.scroll, 1))]
                ELSE c

(* Mutant: the scroll offset is decremented without the check for 0 *)
on_up_unchecked(c) ==
    LET a == c.app
    IN  CASE a.selected.tag = "Feeds" ->
                update_current_feed_and_entries(
                    [c EXCEPT !.app.feed_titles = previous(@)])
          [] a.selected.tag = "Entries" ->
                IF ~IsEmpty(a.entries.items)
                THEN remember_and_reload([c EXCEPT !.app.entries = previous(@)])
                ELSE c
          [] a.selected.tag = "Entry" ->
                [c EXCEPT !.app.scroll = (a.scroll + U16Max) % (U16Max + 1)]

on_up(c) ==
    LET a == c.app
    IN  CASE a.selected.tag = "Feeds" ->
                update_current_feed_and_entries(
                    [c EXCEPT !.app.feed_titles = previous(@)])
          [] a.selected.tag = "Entries" ->
                IF ~IsEmpty(a.entries.items)
                THEN remember_and_reload([c EXCEPT !.app.entries = previous(@)])
                ELSE c
          [] a.selected.tag = "Entry" ->
                IF IsSome(checked_sub(a.scroll, 1))
                THEN [c EXCEPT !.app.scroll = Unwrap(checked_sub(a.scroll, 1))]
                ELSE c

(* Mutant: move-down in Entries view does not look at the list being empty *)
on_down_unguarded(c) ==
    LET a == c.app
    IN  CASE a.selected.tag = "Feeds" ->
                update_current_feed_and_entries(
                    [c EXCEPT !.app.feed_titles = next(@)])
          [] a.selected.tag = "Entries" ->
                remember_and_reload([c EXCEPT !.app.entries = next(@)])
          [] a.selected.tag = "Entry" ->
                IF IsSome(checked_add(a.scroll, 1))
                THEN [c EXCEPT !.app.scroll = Unwrap(checked_add(a.scroll, 1))]
                ELSE c

on_down(c) ==
    LET a == c.app
    IN  CASE a.selected.tag = "Feeds" ->
                update_current_feed_and_entries(
                    [c EXCEPT !.app.feed_titles = next(@)])
          [] a.selected.tag = "Entries" ->
                IF ~IsEmpty(a.entries.items)
                THEN remember_and_reload([c EXCEPT !.app.entries = next(@)])
                ELSE c
          [] a.selected.tag = "Entry" ->
                IF IsSome(checked_add(a.scroll, 1))
                THEN [c EXCEPT !.app.scroll = Unwrap(checked_add(a.scroll, 1))]
                ELSE c

(* Mutant: the snapshot is taken from the selected row of the list *)
on_enter_from_row(c) ==
    LET a == c.app
        entry == IF HasSelectedEntry(a)
                 THEN At(a.entries.items, Unwrap(a.entries.state))
                 ELSE Unwrap(a.current_entry)
    IN  IF /\ a.selected.tag = "Entries"
           /\ ~IsEmpty(a.entries.items)
           /\ IsSome(a.current_entry)
        THEN [c EXCEPT !.app.selected = EntryView(entry),
                       !.app.current_entry_text = EntryText(entry)]
        ELSE c

on_enter(c) ==
    LET a == c.app
    IN  IF /\ a.selected.tag = "Entries"
           /\ ~IsEmpty(a.entries.items)
           /\ IsSome(a.current_entry)
        THEN [c EXCEPT !.app.selected = EntryView(Unwrap(a.current_entry)),
                       !.app.current_entry_text = EntryText(Unwrap(a.current_entry))]
        ELSE c

(* Mutant: move-right keeps the row that the last reload selected *)
on_right_keeping_row(c) ==
    LET a == c.app
    IN  CASE a.selected.tag = "Feeds" ->
                IF ~IsEmpty(a.entries.items)
                THEN get_selected_entry([c EXCEPT !.app.selected = Entries])
                ELSE c
          [] a.selected.tag = "Entries" -> on_enter(c)
          [] a.selected.tag = "Entry" -> c

on_right(c) ==
    LET a == c.app
    IN  CASE a.selected.tag = "Feeds" ->
                IF ~IsEmpty(a.entries.items)
                THEN get_selected_entry(
                        [c EXCEPT !.app.selected = Entries,
                                  !.app.entries = select(@, Some(0))])
                ELSE c
          [] a.selected.tag = "Entries" -> on_enter(c)
          [] a.selected.tag = "Entry" -> c

(* Mutant: move-left in the Entry view returns to Feeds *)
on_left_to_feeds(c) ==
    LET a == c.app
    IN  CASE a.selected.tag = "Feeds" -> c
          [] a.selected.tag = "Entries" -> [c EXCEPT !.app.selected = Feeds]
          [] a.selected.tag = "Entry" ->
                [c EXCEPT !.app.scroll = 0,
                          !.app.current_entry_text = << >>,
                          !.app.selected = Feeds]

on_left(c) ==
    LET a == c.app
    IN  CASE a.selected.tag = "Feeds" -> c
          [] a.selected.tag = "Entries" -> [c EXCEPT !.app.selected = Feeds]
          [] a.selected.tag = "Entry" ->
                [c EXCEPT !.app.scroll = 0,
                          !.app.current_entry_text = << >>,
                          !.app.selected = Entries]

on_esc(c) ==
    LET a == c.app
    IN  CASE a.selected.tag = "Entry" -> [c EXCEPT !.app.selected = Entries]
          [] a.selected.tag = "Entries" -> c
          [] a.selected.tag = "Feeds" -> c

(* Mutant: the feed and its entries are not reloaded after the refresh *)
on_refresh_without_reload(c, k) ==
    LET a == c.app
    IN  IF ~IsSome(a.feed_titles.state) THEN Panics(c)
        ELSE IF ~InRange(a.feed_titles.items, Unwrap(a.feed_titles.state))
        THEN Panics(c)
        ELSE LET feed_id == At(a.feed_titles.items, Unwrap(a.feed_titles.state))[1]
             IN  IF IsFailing(c) THEN Fails(c, "refresh_feed")
                 ELSE [Called(c) EXCEPT
                            !.app.conn = store_refresh_feed(@, feed_id, k)]

(* k: the number of new entries the fetch finds *)
on_refresh(c, k) ==
    LET a == c.app
    IN  IF ~IsSome(a.feed_titles.state) THEN Panics(c)
        ELSE IF ~InRange(a.feed_titles.items, Unwrap(a.feed_titles.state))
        THEN Panics(c)
        ELSE LET feed_id == At(a.feed_titles.items, Unwrap(a.feed_titles.state))[1]
             IN  IF IsFailing(c) THEN Fails(c, "refresh_feed")
                 ELSE update_current_feed_and_entries(
                        [Called(c) EXCEPT
                            !.app.conn = store_refresh_feed(@, feed_id, k)])

(* entry.toggle_read(&self.conn).await? *)
entry_toggle_read(c, entry) ==
    IF IsFailing(c) THEN Fails(c, "toggle_read")
    ELSE [Called(c) EXCEPT !.app.conn = store_toggle_read(@, entry.id)]

back_to_entries(c) == [c EXCEPT !.app.selected = Entries, !.app.scroll = 0]

(* Mutant: the entries are not reloaded after the flag was flipped *)
reload_entry_only(c) == get_selected_entry(c)

reload_entries_and_entry(c) == Then(update_current_entries(c), get_selected_entry)

toggle_read(c) ==
    LET a == c.app
    IN  CASE a.selected.tag = "Entry" ->
                Then(Then(entry_toggle_read(c, Unwrap(a.selected.entry)),
                          reload_entries_and_entry),
                     back_to_entries)
          [] a.selected.tag = "Entries" ->
                IF IsSome(a.current_entry)
                THEN Then(entry_toggle_read(c, Unwrap(a.current_entry)),
                          reload_entries_and_entry)
                ELSE c
          [] a.selected.tag = "Feeds" -> c

(* Mutant: ShowAll is never left *)
flip_read_mode_stuck(a) ==
    CASE a.read_mode = "ShowUnread" /\ a.selected.tag \in {"Feeds", "Entries"} ->
            "ShowAll"
      [] OTHER -> a.read_mode

flip_read_mode(a) ==
    CASE a.read_mode = "ShowAll" /\ a.selected.tag \in {"Feeds", "Entries"} ->
            "ShowUnread"
      [] a.read_mode = "ShowUnread" /\ a.selected.tag \in {"Feeds", "Entries"} ->
            "ShowAll"
      [] OTHER -> a.read_mode

(* Mutant: the selection is not cleared on an empty list *)
select_first_or_keep(c) ==
    IF ~IsEmpty(c.app.entries.items)
    THEN [c EXCEPT !.app.entries = select(@, Some(0))]
    ELSE c

select_first_or_none(c) ==
    IF ~IsEmpty(c.app.entries.items)
    THEN [c EXCEPT !.app.entries = select(@, Some(0))]
    ELSE [c EXCEPT !.app.entries = select(@, None)]

toggle_read_mode(c) ==
    Then(Then(update_current_entries(
                [c EXCEPT !.app.read_mode = flip_read_mode(c.app)]),
              select_first_or_none),
         get_selected_entry)

(* `self.on_right().unwrap()` *)
unwrap(c) == IF c.res = "Err" THEN [c EXCEPT !.res = "panic"] ELSE c

(* k: what a refresh started by this key finds *)
on_key(c, ch, k) ==
    CASE ch = "q" -> [c EXCEPT !.app.should_quit = TRUE]
      [] ch = "h" -> on_left(c)
      [] ch = "j" -> on_down(c)
      [] ch = "k" -> on_up(c)
      [] ch = "l" -> unwrap(on_right(c))
      [] ch = "r" -> IF c.app.selected.tag = "Feeds"
                     THEN on_refresh(c, k)
                     ELSE toggle_read(c)
      [] ch = "a" -> toggle_read_mode(c)
      [] OTHER -> c

(* `progress` counts the ticks since it was last 0.0: the f64 sum of 1000  *)
(* steps of 0.001 is 1.0000000000000007, the first to exceed 1.0.          *)
TicksPerCycle == 1000

on_tick(c) ==
    [c EXCEPT !.app.progress =
        IF @ + 1 >= TicksPerCycle THEN 0 ELSE @ + 1]

----------------------------------------------------------------------------
(* The state machine *)

(* The most store calls one handler makes (on_refresh, toggle_read, new) *)
MaxCalls == 3

Keys == {"q", "h", "j", "k", "l", "r", "a"}

(* The stores the program may be started on: n feeds, feed f with lens[f]  *)
(* entries, each read or unread.                                           *)
RECURSIVE Sum(_, _)
Sum(lens, n) == IF n = 0 THEN 0 ELSE lens[n] + Sum(lens, n - 1)

EntriesOf(f, len) ==
    { [i \in 1..len |-> Entry(10 * f + i, f, rd[i])] : rd \in [1..len -> BOOLEAN] }

StoresOf(n) ==
    UNION { { [feeds |-> [f \in 1..n |-> f], entries |-> es] :
                es \in { e \in [1..n -> UNION { EntriesOf(f, len) :
                                        f \in 1..n, len \in 0..MaxEntries }] :
                            \A f \in 1..n :
                                /\ Len(e[f]) = lens[f]
                                /\ \A i \in 1..Len(e[f]) : e[f][i].feed_id = f } } :
            lens \in { l \in [1..n -> 0..MaxEntries] : Sum(l, n) <= MaxEntries } }

InitStores == UNION { StoresOf(n) : n \in 0..MaxFeeds }

(* The handler on_key(ch) dispatches to *)
HandlerOf(a, ch) ==
    CASE ch = "h" -> "on_left"
      [] ch = "j" -> "on_down"
      [] ch = "k" -> "on_up"
      [] ch = "l" -> "on_right"
      [] ch = "r" -> IF a.selected.tag = "Feeds" THEN "on_refresh" ELSE "toggle_read"
      [] ch = "a" -> "toggle_read_mode"
      [] OTHER -> "on_key"

(* The main loop hands the next event to the App: it was constructed, has  *)
(* not panicked and has not been asked to quit.                            *)
Running ==
    /\ last.op # "init"
    /\ last.res # "panic"
    /\ last.op = "new" => last.res = "Ok"
    /\ ~app.should_quit

Done(op, key, c) ==
    /\ app' = c.app
    /\ last' = [op |-> op, key |-> key, res |-> c.res, failed |-> c.failed]
    /\ failures' = IF c.failed = "none" THEN failures ELSE failures + 1

(* Which store call of the next handler fails (0: none) *)
FailAt == IF failures < MaxFailures THEN 0..MaxCalls ELSE {0}

(* How many entries a fetch may find: the store holds at most MaxEntries *)
Fetched == { k \in 0..1 : NumEntries(app.conn) + k <= MaxEntries }

ScrollRoom(op) ==
    (op = "on_down" /\ app.selected.tag = "Entry") => app.scroll < MaxScroll

Init ==
    /\ \E conn \in InitStores : app = NewApp(conn)
    /\ failures = 0
    /\ last = [op |-> "init", key |-> "", res |-> "Ok", failed |-> "none"]

New ==
    /\ last.op = "init"
    /\ \E fail \in FailAt, checks \in BOOLEAN :
        Done("new", "", new(Start(app, fail, checks)))

OnKey ==
    /\ Running
    /\ \E ch \in Keys, fail \in FailAt, checks \in BOOLEAN :
        /\ ScrollRoom(HandlerOf(app, ch))
        /\ \E k \in (IF HandlerOf(app, ch) = "on_refresh" THEN Fetched ELSE {0}) :
            Done(HandlerOf(app, ch), ch, on_key(Start(app, fail, checks), ch, k))

OnRight ==
    /\ Running
    /\ \E fail \in FailAt : Done("on_right", "", on_right(Start(app, fail, TRUE)))

OnEnter ==
    /\ Running
    /\ Done("on_enter", "", on_enter(Start(app, 0, TRUE)))

OnEsc ==
    /\ Running
    /\ Done("on_esc", "", on_esc(Start(app, 0, TRUE)))

SubscribeToFeed ==
    /\ Running
    /\ Len(app.conn.feeds) < MaxFeeds
    /\ \E fail \in FailAt, k \in Fetched :
        Done("subscribe_to_feed", "", subscribe_to_feed(Start(app, fail, TRUE), k))

OnTick ==
    /\ Running
    /\ app.progress < MaxTicks
    /\ Done("on_tick", "", on_tick(Start(app, 0, TRUE)))

Next ==
    New \/ OnKey \/ OnRight \/ OnEnter \/ OnEsc \/ SubscribeToFeed \/ OnTick

Spec == Init /\ [][Next]_vars

TypeOK ==
    /\ last.res \in {"Ok", "Err", "panic"}
    /\ app.selected.tag \in {"Feeds", "Entries", "Entry"}
    /\ app.read_mode \in {"ShowAll", "ShowUnread"}

----------------------------------------------------------------------------
(* Scrolling in the Entry view, near both ends of the u16 range.  The      *)
(* runs start in an Entry view that was opened from a fresh App (under     *)
(* ShowUnread, or under ShowAll after a toggle-read-mode; on row 0, or on  *)
(* the next row after a move-down) and was scrolled down s times.          *)

OpenedAt(conn, show_all, row) ==
    LET c0 == new(Start(NewApp(conn), 0, FALSE))
        c1 == IF show_all THEN Then(c0, toggle_read_mode) ELSE c0
        c2 == Then(c1, on_right)
        c3 == IF row = 1 THEN Then(c2, on_down) ELSE c2
    IN  Then(c3, on_enter)

ScrollStarts == (0..MaxScroll) \cup ((U16Max - MaxScroll)..U16Max)

InitScroll ==
    /\ \E conn \in InitStores, show_all \in BOOLEAN, row \in 0..1,
          s \in ScrollStarts :
            /\ OpenedAt(conn, show_all, row).res = "Ok"
            /\ OpenedAt(conn, show_all, row).app.selected.tag = "Entry"
            /\ app = [OpenedAt(conn, show_all, row).app EXCEPT !.scroll = s]
            /\ last = [op |-> IF s = 0 THEN "on_enter" ELSE "on_down",
                       key |-> IF s = 0 THEN "" ELSE "j",
                       res |-> "Ok", failed |-> "none"]
    /\ failures = 0

ScrollUp ==
    /\ Running
    /\ app.selected.tag = "Entry"
    /\ app.scroll <= MaxScroll \/ app.scroll > U16Max - MaxScroll
    /\ Done("on_up", "k", on_key(Start(app, 0, TRUE), "k", 0))

ScrollDown ==
    /\ Running
    /\ app.selected.tag = "Entry"
    /\ app.scroll < MaxScroll \/ app.scroll >= U16Max - MaxScroll
    /\ Done("on_down", "j", on_key(Start(app, 0, TRUE), "j", 0))

NextScroll == ScrollUp \/ ScrollDown

SpecScroll == InitScroll /\ [][NextScroll]_vars

----------------------------------------------------------------------------
(* Vocabulary of the properties *)

(* An App exists: App::new returned it and no handler has panicked *)
Alive ==
    /\ last.op # "init"
    /\ last.res # "panic"
    /\ last.op = "new" => last.res = "Ok"

InFeedsOrEntries == app.selected.tag \in {"Feeds", "Entries"}

(* The selected index of a list is valid *)
ValidSelection(list) ==
    IF IsEmpty(list.items)
    THEN list.state = None
    ELSE IsSome(list.state) => InRange(list.items, Unwrap(list.state))

(* What the store returns for the entries of the current feed *)
StoreEntriesOf(a) ==
    IF IsSome(a.current_feed)
    THEN get_entries(a.conn, a.read_mode, Unwrap(a.current_feed).id)
    ELSE << >>

EntriesSynced(a) == a.entries.items = StoreEntriesOf(a)

TitlesSynced(a) == a.feed_titles.items = get_feed_titles(a.conn)

Synced(a) == EntriesSynced(a) /\ TitlesSynced(a)

Ids(items) == { items[i].id : i \in 1..Len(items) }

----------------------------------------------------------------------------
(* C1: in every state of a constructed App, for feed_titles and for        *)
(* entries, the selected index, if present, is below the length of the     *)
(* list, and no index is selected when the list is empty.                  *)
C1_SelectionValid ==
    Alive => ValidSelection(app.feed_titles) /\ ValidSelection(app.entries)

(* C2: whenever the active view is Feeds or Entries, the scroll offset is  *)
(* 0.                                                                      *)
C2_ScrollZeroOutsideEntry ==
    (Alive /\ InFeedsOrEntries) => app.scroll = 0

(* C3: when a store call fails in a handler dispatched through on_key,     *)
(* on_key returns the error as an Err value; it does not panic.            *)
C3_KeyErrorIsReturned ==
    (last.key \in {"h", "j", "k", "l", "r", "a"} /\ last.failed # "none")
        => last.res = "Err"

----------------------------------------------------------------------------
(* C4: a transition in which a store call fails stops there; what it       *)
(* changed before the failing call stays changed and nothing after it is   *)
(* applied.  Move-up/move-down in Feeds view whose get_feed fails moves    *)
(* the feed_titles selection and changes nothing else; toggle-read whose   *)
(* reload of the entries fails flips the store flag and changes nothing    *)
(* else.  Both return Err.                                                 *)
FeedMoveFailed ==
    /\ last'.op \in {"on_up", "on_down"}
    /\ app.selected.tag = "Feeds"
    /\ last'.failed = "get_feed"

ToggleReloadFailed ==
    /\ last'.op = "toggle_read"
    /\ last'.failed = "get_entries"

ToggledEntry(a) ==
    IF a.selected.tag = "Entry" THEN Unwrap(a.selected.entry)
    ELSE Unwrap(a.current_entry)

C4_NoRollback ==
    [][/\ FeedMoveFailed =>
            /\ last'.res = "Err"
            /\ app' = [app EXCEPT !.feed_titles =
                          IF last'.op = "on_up" THEN previous(@) ELSE next(@)]
       /\ ToggleReloadFailed =>
            /\ last'.res = "Err"
            /\ app' = [app EXCEPT !.conn =
                          store_toggle_read(@, ToggledEntry(app).id)]
            /\ HasEntry(app.conn, ToggledEntry(app).id)
            /\ get_entry(app'.conn, ToggledEntry(app).id).read
                  # get_entry(app.conn, ToggledEntry(app).id).read]_vars

(* A failed move in Feeds view: the selected row is no longer the row of   *)
(* current_feed, which kept its value.                                     *)
C4_Witness ==
    /\ last.op \in {"on_up", "on_down"}
    /\ last.failed = "get_feed"
    /\ last.res = "Err"
    /\ IsSome(app.current_feed)
    /\ IsSome(app.feed_titles.state)
    /\ At(app.feed_titles.items, Unwrap(app.feed_titles.state))[1]
          # Unwrap(app.current_feed).id

----------------------------------------------------------------------------
(* C5, as claimed: after every transition that completes successfully the  *)
(* entries list and the feed_titles list equal what the store returns.     *)
(* (Stated for the states that show entries with a valid selection: the    *)
(* others are C1's.)                                                       *)
C5_SyncedAfterSuccess ==
    (/\ Alive
     /\ last.res = "Ok"
     /\ ~IsEmpty(app.entries.items)
     /\ ValidSelection(app.entries)
     /\ ValidSelection(app.feed_titles)) => Synced(app)

(* C5, amended: App::new establishes that the two lists equal what the     *)
(* store returns, and every transition that completes successfully from a  *)
(* state where they do leaves them so.                                     *)
C5_SyncPreserved ==
    [][(last'.res = "Ok" /\ (last'.op = "new" \/ Synced(app))) => Synced(app')]_vars

(* A refresh that found a new entry, which the entries list shows *)
C5_Witness ==
    /\ last.op = "on_refresh"
    /\ last.res = "Ok"
    /\ Synced(app)
    /\ Len(app.entries.items) = 2
    /\ Len(app.feed_titles.items) = 2

----------------------------------------------------------------------------
(* C6: under ShowUnread, a toggle-read that completes on an entry that the *)
(* store holds as unread leaves an entries list without that entry.        *)
C6_ReadEntryFilteredOut ==
    [][(/\ last'.op = "toggle_read"
        /\ last'.res = "Ok"
        /\ app.read_mode = "ShowUnread"
        /\ app.selected.tag = "Entries" => IsSome(app.current_entry)
        /\ HasEntry(app.conn, ToggledEntry(app).id)
        /\ ~get_entry(app.conn, ToggledEntry(app).id).read)
       => /\ ToggledEntry(app).id \notin Ids(app'.entries.items)
          /\ get_entry(app'.conn, ToggledEntry(app).id).read]_vars

(* After a toggle-read under ShowUnread the current feed has a read entry  *)
(* and an unread one, and the list shows the unread one only.              *)
C6_Witness ==
    /\ last.op = "toggle_read"
    /\ last.res = "Ok"
    /\ app.read_mode = "ShowUnread"
    /\ IsSome(app.current_feed)
    /\ Len(get_entries(app.conn, "ShowAll", Unwrap(app.current_feed).id)) = 2
    /\ Len(app.entries.items) = 1
    /\ \A i \in 1..Len(app.entries.items) : ~app.entries.items[i].read

----------------------------------------------------------------------------
(* Two toggle-read-mode actions in a row, no store call failing, in a      *)
(* build that checks overflow or in one that does not                      *)
ToggledOnce(a, checks) == toggle_read_mode(Start(a, 0, checks))

ToggledTwice(a, checks) ==
    Then(ToggledOnce(a, checks), LAMBDA c : toggle_read_mode(Start(c.app, 0, checks)))

TwiceRestores(a) ==
    \A checks \in BOOLEAN :
        ToggledTwice(a, checks).res = "Ok" =>
            /\ ToggledTwice(a, checks).app.read_mode = a.read_mode
            /\ ToggledTwice(a, checks).app.entries.items = a.entries.items
            /\ ToggledTwice(a, checks).app.conn = a.conn

(* C7, as claimed: in Feeds or Entries view two consecutive                *)
(* toggle-read-mode actions restore read_mode and the entries list.        *)
(* (Stated for the states with valid selections: the others are C1's.)     *)
C7_ToggleTwiceRestores ==
    (/\ Alive
     /\ InFeedsOrEntries
     /\ ValidSelection(app.entries)
     /\ ValidSelection(app.feed_titles)) => TwiceRestores(app)

(* C7, amended: they restore read_mode, and they restore the entries list  *)
(* when that list equalled what the store returns for the current feed     *)
(* and filter.                                                             *)
C7_ToggleTwiceRestoresSynced ==
    (Alive /\ InFeedsOrEntries) =>
        /\ EntriesSynced(app) => TwiceRestores(app)
        /\ \A checks \in BOOLEAN :
              ToggledTwice(app, checks).res = "Ok" =>
                  ToggledTwice(app, checks).app.read_mode = app.read_mode

(* Reached by a toggle-read-mode, with a list that one more toggle changes *)
(* and the second one brings back                                          *)
C7_Witness ==
    /\ last.op = "toggle_read_mode"
    /\ last.res = "Ok"
    /\ InFeedsOrEntries
    /\ EntriesSynced(app)
    /\ ToggledTwice(app, FALSE).res = "Ok"
    /\ ToggledOnce(app, FALSE).app.entries.items # app.entries.items
    /\ ToggledTwice(app, FALSE).app.entries.items = app.entries.items

----------------------------------------------------------------------------
(* C8: in Feeds or Entries view a toggle-read-mode that completes flips    *)
(* read_mode, leaves as entries list the current feed's entries under the  *)
(* new filter, selects row 0 if that list is non-empty and nothing if it   *)
(* is empty, and leaves as current_entry the entry at row 0 when a row is  *)
(* selected.                                                               *)
C8_ToggleReadModeOutcome ==
    [][(/\ last'.op = "toggle_read_mode"
        /\ last'.res = "Ok"
        /\ InFeedsOrEntries)
       => /\ app'.read_mode # app.read_mode
          /\ app'.entries.items = StoreEntriesOf(app')
          /\ app'.entries.state =
                IF IsEmpty(app'.entries.items) THEN None ELSE Some(0)
          /\ IsSome(app'.entries.state) =>
                /\ app'.current_entry = Some(At(app'.entries.items, 0))
                /\ app'.current_entry =
                      Some(get_entry(app'.conn, At(app'.entries.items, 0).id))
          /\ app'.selected = app.selected
          /\ app'.current_feed = app.current_feed
          /\ app'.conn = app.conn]_vars

(* ShowUnread was toggled to ShowAll on a feed with a read and an unread   *)
(* entry: the list has both, row 0 is selected although row 1 was          *)
(* remembered.                                                             *)
C8_Witness ==
    /\ last.op = "toggle_read_mode"
    /\ last.res = "Ok"
    /\ InFeedsOrEntries
    /\ app.read_mode = "ShowAll"
    /\ Len(app.entries.items) = 2
    /\ \E i \in 1..2 : app.entries.items[i].read
    /\ \E i \in 1..2 : ~app.entries.items[i].read
    /\ app.entries.state = Some(0)
    /\ app.entry_selection_position = 1
    /\ app.current_entry = Some(At(app.entries.items, 0))

----------------------------------------------------------------------------
Frame9 ==
    /\ app'.selected = app.selected
    /\ app'.read_mode = app.read_mode
    /\ app'.entries = app.entries
    /\ app'.scroll = app.scroll

Subscribed ==
    /\ last'.op = "subscribe_to_feed"
    /\ last'.res = "Ok"

(* C9, as claimed: after a subscribe that the store accepts, feed_titles   *)
(* is reloaded from the store and is exactly one longer than before; view, *)
(* read_mode, entries list and scroll are unchanged.                       *)
C9_SubscribeAddsOne ==
    [][Subscribed
       => /\ app'.feed_titles.items = get_feed_titles(app'.conn)
          /\ Len(app'.feed_titles.items) = Len(app.feed_titles.items) + 1
          /\ Frame9]_vars

(* C9, amended: feed_titles is reloaded from the store and is exactly one  *)
(* longer than the store's list of feeds was before the action, hence one  *)
(* longer than the previous feed_titles whenever that list equalled the    *)
(* store's; view, read_mode, entries list and scroll are unchanged.        *)
C9_SubscribeAddsOneToStore ==
    [][Subscribed
       => /\ app'.feed_titles.items = get_feed_titles(app'.conn)
          /\ Len(app'.feed_titles.items) = Len(get_feed_titles(app.conn)) + 1
          /\ TitlesSynced(app) =>
                Len(app'.feed_titles.items) = Len(app.feed_titles.items) + 1
          /\ Frame9]_vars

(* A second feed was subscribed to while the entries of the first are      *)
(* shown.                                                                  *)
C9_Witness ==
    /\ last.op = "subscribe_to_feed"
    /\ last.res = "Ok"
    /\ Len(app.feed_titles.items) = 2
    /\ TitlesSynced(app)
    /\ app.selected.tag = "Entries"
    /\ Len(app.entries.items) > 0

----------------------------------------------------------------------------
(* The list that move-up and move-down act on in the active view *)
ActiveList(a) == IF a.selected.tag = "Feeds" THEN a.feed_titles ELSE a.entries

Down(a) == on_down(Start(a, 0, FALSE)).app
Up(a) == on_up(Start(a, 0, FALSE)).app

(* C10: on a non-empty list with a selected row i, move-down selects       *)
(* i + 1, or 0 from the last row; move-up selects i - 1, or the last row   *)
(* from 0; move-down then move-up, and move-up then move-down, select row  *)
(* i again.                                                                *)
C10_CyclicRoundTrip ==
    (/\ Alive
     /\ InFeedsOrEntries
     /\ ~IsEmpty(ActiveList(app).items)
     /\ IsSome(ActiveList(app).state))
    => LET len == Len(ActiveList(app).items)
           i == Unwrap(ActiveList(app).state)
       IN  /\ ActiveList(Down(app)).state = Some((i + 1) % len)
           /\ ActiveList(Up(app)).state = Some((i + len - 1) % len)
           /\ ActiveList(Up(Down(app))).state = Some(i)
           /\ ActiveList(Down(Up(app))).state = Some(i)

(* Move-up from row 0 of a two-entry list has wrapped to row 1 *)
C10_Witness ==
    /\ last.op = "on_up"
    /\ last.res = "Ok"
    /\ app.selected.tag = "Entries"
    /\ Len(app.entries.items) = 2
    /\ app.entries.state = Some(1)
    /\ ActiveList(Down(app)).state = Some(0)

----------------------------------------------------------------------------
(* C11: next() and previous() leave an empty list without a selection as   *)
(* it is, and move-up and move-down in Entries view with an empty entries  *)
(* list complete and change neither the selection nor                      *)
(* entry_selection_position nor current_entry.                             *)
C11_EmptyListMovement ==
    (Alive /\ app.selected.tag = "Entries" /\ IsEmpty(app.entries.items))
    => /\ \A fail \in 0..MaxCalls, checks \in BOOLEAN :
            /\ on_up(Start(app, fail, checks)) = Start(app, fail, checks)
            /\ on_down(Start(app, fail, checks)) = Start(app, fail, checks)
       /\ app.entries.state = None =>
            /\ next(app.entries).state = None
            /\ previous(app.entries).state = None

(* Move-down in Entries view on an empty list without a selection, with    *)
(* the entry that was current before the list became empty                 *)
C11_Witness ==
    /\ last.op = "on_down"
    /\ last.res = "Ok"
    /\ app.selected.tag = "Entries"
    /\ IsEmpty(app.entries.items)
    /\ app.entries.state = None
    /\ IsSome(app.current_entry)

----------------------------------------------------------------------------
(* Move-up and move-down in the Entry view complete and touch the scroll   *)
(* offset only.                                                            *)
ScrollFrame(c) ==
    /\ c.res = "Ok"
    /\ c.app.scroll >= 0
    /\ c.app = [app EXCEPT !.scroll = c.app.scroll]
    /\ c.app.selected = app.selected
    /\ c.app.entries.state = app.entries.state
    /\ c.app.current_entry = app.current_entry

ScrollsUpByOne ==
    LET c == on_up(Start(app, 0, TRUE))
    IN  /\ ScrollFrame(c)
        /\ c.app.scroll = IF app.scroll = 0 THEN 0 ELSE app.scroll - 1

(* C12, as claimed: in Entry view the scroll offset never goes below 0:    *)
(* move-up at 0 leaves it at 0, otherwise move-up decreases it by exactly  *)
(* 1 and move-down increases it by exactly 1; neither changes the view,    *)
(* the snapshot, the entries selection or current_entry.                   *)
C12_ScrollByOne ==
    (Alive /\ app.selected.tag = "Entry") =>
        /\ ScrollsUpByOne
        /\ LET c == on_down(Start(app, 0, TRUE))
           IN  /\ ScrollFrame(c)
               /\ c.app.scroll = app.scroll + 1

(* C12, amended: as claimed, except that move-down at the largest u16      *)
(* leaves the offset there.                                                *)
C12_ScrollByOneWithinU16 ==
    (Alive /\ app.selected.tag = "Entry") =>
        /\ app.scroll \in 0..U16Max
        /\ ScrollsUpByOne
        /\ LET c == on_down(Start(app, 0, TRUE))
           IN  /\ ScrollFrame(c)
               /\ c.app.scroll = IF app.scroll = U16Max THEN U16Max
                                 ELSE app.scroll + 1

(* Move-up has brought the offset down to the floor *)
C12_Witness ==
    /\ last.op = "on_up"
    /\ last.res = "Ok"
    /\ app.selected.tag = "Entry"
    /\ app.scroll = 0

----------------------------------------------------------------------------
(* current_feed is the feed of the selected row of feed_titles *)
FeedConsistent(a) ==
    IF IsEmpty(a.feed_titles.items)
    THEN a.current_feed = None
    ELSE /\ IsSome(a.feed_titles.state)
         /\ InRange(a.feed_titles.items, Unwrap(a.feed_titles.state))
         /\ a.current_feed =
               Some(Feed(At(a.feed_titles.items, Unwrap(a.feed_titles.state))[1]))

(* C13: after every transition that completes successfully, a row of a     *)
(* non-empty feed_titles list is selected and current_feed is the feed     *)
(* whose id is at that row; with an empty feed_titles list current_feed is *)
(* absent.  (Stated for the states whose entries selection is valid: the   *)
(* others are C1's.)                                                       *)
C13_FeedSelectionConsistent ==
    (Alive /\ last.res = "Ok" /\ ValidSelection(app.entries))
        => FeedConsistent(app)

----------------------------------------------------------------------------
(* A toggle-read in Entries view that reloaded the entries list, a row of  *)
(* which was selected, and found it non-empty                              *)
ReloadedInEntries ==
    /\ last'.op = "toggle_read"
    /\ last'.res = "Ok"
    /\ app.selected.tag = "Entries"
    /\ IsSome(app.current_entry)
    /\ HasSelectedEntry(app)
    /\ ~IsEmpty(app'.entries.items)

(* C14: when toggle-read reloads the entries list in Entries view, the row *)
(* selected afterwards has the index of the row selected before if that    *)
(* index is valid in the new list, and is the last row otherwise.  (Stated *)
(* for the reloads that return a non-empty list: the others are C1's.)     *)
C14_CursorRestored ==
    [][ReloadedInEntries
       => LET i == Unwrap(app.entries.state)
              len == Len(app'.entries.items)
          IN  app'.entries.state = Some(IF i < len THEN i ELSE len - 1)]_vars

----------------------------------------------------------------------------
(* C15: a move-right in Feeds view with a non-empty entries list, no store *)
(* call failing, switches the view to Entries, selects row 0 and sets      *)
(* current_entry to the store's record of the entry at row 0, and changes  *)
(* nothing else; with an empty entries list a move-right in Feeds view, and*)
(* a confirm or move-right in Entries view, return Ok and change nothing.  *)
C15_DrillDown ==
    [][/\ (/\ last'.op = "on_right"
           /\ app.selected.tag = "Feeds"
           /\ ~IsEmpty(app.entries.items)
           /\ last'.res = "Ok")
          => /\ HasEntry(app.conn, At(app.entries.items, 0).id)
             /\ app' = [app EXCEPT
                   !.selected = Entries,
                   !.entries = select(@, Some(0)),
                   !.current_entry =
                       Some(get_entry(app.conn, At(app.entries.items, 0).id))]
       /\ (/\ last'.op \in {"on_right", "on_enter"}
           /\ app.selected.tag \in {"Feeds", "Entries"}
           /\ (last'.op = "on_enter" => app.selected.tag = "Entries")
           /\ IsEmpty(app.entries.items))
          => /\ last'.res = "Ok"
             /\ app' = app]_vars

(* Move-right has opened a feed of two entries on row 0 although row 1 was *)
(* the remembered one                                                      *)
C15_Witness ==
    /\ last.op = "on_right"
    /\ last.res = "Ok"
    /\ app.selected.tag = "Entries"
    /\ Len(app.entries.items) = 2
    /\ app.entries.state = Some(0)
    /\ app.entry_selection_position = 1
    /\ app.current_entry = Some(get_entry(app.conn, At(app.entries.items, 0).id))

----------------------------------------------------------------------------
(* A confirm or move-right in Entries view has switched to the Entry view *)
EntersEntry ==
    /\ last'.op \in {"on_enter", "on_right"}
    /\ app.selected.tag = "Entries"
    /\ app'.selected.tag = "Entry"

(* The snapshot is the entry at the selected row of the entries list *)
SnapshotOfSelectedRow(a) ==
    /\ HasSelectedEntry(a)
    /\ Unwrap(a.selected.entry).id = At(a.entries.items, Unwrap(a.entries.state)).id

(* The snapshot does not change while the view stays Entry *)
SnapshotFrozen ==
    (app.selected.tag = "Entry" /\ app'.selected.tag = "Entry")
        => app'.selected = app.selected

(* C16, as claimed: whenever confirm or move-right in Entries view         *)
(* switches to the Entry view, the snapshot is the entry at the selected   *)
(* row of the entries list (same id), and the snapshot does not change     *)
(* while the view stays Entry, whatever actions occur.                     *)
C16_SnapshotIdentity ==
    [][/\ EntersEntry => SnapshotOfSelectedRow(app')
       /\ SnapshotFrozen]_vars

(* current_entry is the entry at the selected row of the entries list *)
CurrentIsSelected(a) ==
    /\ HasSelectedEntry(a)
    /\ IsSome(a.current_entry)
    /\ Unwrap(a.current_entry).id = At(a.entries.items, Unwrap(a.entries.state)).id

(* C16, amended: the snapshot is the current_entry of that moment; it is   *)
(* the entry at the selected row of the entries list if current_entry was, *)
(* which it is as long as no store call has failed; the snapshot does not  *)
(* change while the view stays Entry, whatever actions occur.              *)
C16_SnapshotOfCurrentEntry ==
    [][/\ EntersEntry =>
            /\ app'.selected = EntryView(Unwrap(app.current_entry))
            /\ CurrentIsSelected(app) => SnapshotOfSelectedRow(app')
            /\ failures = 0 => SnapshotOfSelectedRow(app')
       /\ SnapshotFrozen]_vars

(* In the Entry view of the second of two entries; a toggle-read-mode has  *)
(* reloaded the list and selected row 0, the snapshot is still the second. *)
C16_Witness ==
    /\ last.op = "toggle_read_mode"
    /\ last.res = "Ok"
    /\ app.selected.tag = "Entry"
    /\ Len(app.entries.items) = 2
    /\ app.entries.state = Some(0)
    /\ Unwrap(app.selected.entry).id = At(app.entries.items, 1).id

----------------------------------------------------------------------------
(* C17: a toggle-read-mode in the Entry view leaves read_mode, the entries *)
(* list selection, current_entry, the snapshot, the view and the scroll    *)
(* offset unchanged.  (Stated for the runs in which no store call has      *)
(* failed and for the reloads that return a non-empty list: the others are *)
(* C5's and C1's.)                                                         *)
C17_NoEffectInEntryView ==
    [][(/\ last'.op = "toggle_read_mode"
        /\ last'.res = "Ok"
        /\ failures' = 0
        /\ ~IsEmpty(app'.entries.items)
        /\ app.selected.tag = "Entry")
       => /\ app'.read_mode = app.read_mode
          /\ app'.entries.state = app.entries.state
          /\ app'.current_entry = app.current_entry
          /\ app'.selected = app.selected
          /\ app'.scroll = app.scroll]_vars

----------------------------------------------------------------------------
(* C18: as long as no store call fails, every action runs to completion:   *)
(* App::new and every handler return without a panic.                      *)
C18_NoPanicWithoutStoreFailure ==
    failures = 0 => last.res # "panic"

----------------------------------------------------------------------------
(* C19: in Entries view a toggle-read flips the persisted read flag of     *)
(* exactly one entry, the entry at the selected row of the entries list,   *)
(* and flips nothing when the list is empty or no row of it is selected.   *)
(* (Stated for the runs in which no store call has failed and for the      *)
(* states whose entries selection is valid: the others are C5's and C1's.) *)
C19_TogglesSelectedRowOnly ==
    [][(/\ last'.op = "toggle_read"
        /\ last'.res = "Ok"
        /\ failures' = 0
        /\ ValidSelection(app.entries)
        /\ app.selected.tag = "Entries")
       => app'.conn =
            IF HasSelectedEntry(app)
            THEN store_toggle_read(app.conn,
                    At(app.entries.items, Unwrap(app.entries.state)).id)
            ELSE app.conn]_vars

----------------------------------------------------------------------------
(* The level of a view: Feeds, below it Entries, below it Entry *)
Level(a) ==
    CASE a.selected.tag = "Feeds" -> 0
      [] a.selected.tag = "Entries" -> 1
      [] a.selected.tag = "Entry" -> 2

ViewStep ==
    /\ last'.op = "new" => app'.selected = Feeds
    /\ Level(app') - Level(app) \in {-1, 0, 1}
    /\ (Level(app') = 2 /\ Level(app) # 2)
          => /\ last'.op \in {"on_enter", "on_right"}
             /\ app.selected.tag = "Entries"
             /\ ~IsEmpty(app.entries.items)
             /\ IsSome(app.current_entry)
             /\ app'.selected = EntryView(Unwrap(app.current_entry))
    /\ (last'.op \in {"on_left", "on_esc"} /\ app.selected.tag = "Feeds")
          => /\ last'.res = "Ok"
             /\ app' = app

(* C20: the initial view is Feeds, and every action leaves the view where  *)
(* it is or moves it to an adjacent level (Feeds to Entries, Entries to    *)
(* Feeds, Entries to Entry, Entry to Entries); the Entry view is entered   *)
(* only from Entries with a non-empty entries list and a current_entry,    *)
(* and move-left and escape in Feeds view change nothing.                  *)
C20_LevelByLevel ==
    /\ app.selected = Feeds
    /\ [][ViewStep]_vars

(* A confirm has entered the Entry view from a non-empty entries list *)
C20_Witness ==
    /\ last.op = "on_enter"
    /\ last.res = "Ok"
    /\ app.selected.tag = "Entry"
    /\ ~IsEmpty(app.entries.items)
    /\ IsSome(app.current_entry)
    /\ app.selected = EntryView(Unwrap(app.current_entry))

====
